---- MODULE Spec2Model ----
(***************************************************************************)
(* Model of main.go: the startup sequence of main, the background          *)
(* goroutine collectMachineResourceMetrics, and the three HTTP handlers    *)
(* helloWorldHandler, cartAddHandler and cartRemoveHandler, which net/http *)
(* runs one goroutine per request.                                         *)
(*                                                                         *)
(* cartCount is a package-level int64 accessed by the cart handlers with   *)
(* no synchronisation.  Every load and every store of it is a step of its  *)
(* own, so that any two handlers interleave between a load and the store   *)
(* that depends on it.                                                     *)
(***************************************************************************)
EXTENDS Integers, Sequences, FiniteSets

\* Total number of HTTP requests served in one run.
MaxRequests == 2
\* Number of ticks of the sampler's ticker in one run.
MaxTicks == 2

VARIABLES
    mainPc,            \* position of func main
    failedStep,        \* the startup call that returned an error, or "none"
    exitedVia,         \* how the process ended: "none", "startup", "ListenAndServe", "return"
    deferred,          \* main's stack of deferred calls
    conn,              \* the gRPC client connection
    res,               \* the resource
    traceProvider,     \* state of the trace pipeline
    meterProvider,     \* state of the metric pipeline
    shutdownCalls,     \* number of calls of each provider's Shutdown
    tracer,            \* package variable tracer
    meter,             \* package variable meter
    errorCounter,      \* package variable errorCounter
    latencyHistogram,  \* package variable latencyHistogram
    itemGauge,         \* package variable itemGauge
    regCalls,          \* registrations accepted by the meter, per instrument identity
    samplerPc,         \* position of collectMachineResourceMetrics
    serverStarted,     \* http.ListenAndServe has been called
    cartCount,         \* package variable cartCount
    errorCounterVal,   \* sum held by api.request.error_counter
    addDeltas,         \* the deltas passed to errorCounter.Add so far
    itemGaugeVal,      \* last value recorded to api.cart.items
    req                \* one record per request goroutine

vars == <<mainPc, failedStep, exitedVia, deferred, conn, res, traceProvider,
          meterProvider, shutdownCalls, tracer, meter, errorCounter,
          latencyHistogram, itemGauge, regCalls, samplerPc, serverStarted,
          cartCount, errorCounterVal, addDeltas, itemGaugeVal, req>>

mainVars == <<mainPc, failedStep, exitedVia, deferred, conn, res, traceProvider,
              meterProvider, shutdownCalls, tracer, meter, errorCounter,
              latencyHistogram, itemGauge, serverStarted>>

sharedVars == <<cartCount, errorCounterVal, addDeltas, itemGaugeVal>>

----------------------------------------------------------------------------
\* Instrument identities (name, unit) used by the program.

ErrorCounterId == <<"api.request.error_counter", "{call}">>
LatencyHistogramId == <<"api.request.latency_seconds", "{s}">>
AllocatedMemoryId == <<"process.allocated_memory", "{MB}">>
ItemGaugeId == <<"api.cart.items", "{item}">>

Instruments == {ErrorCounterId, LatencyHistogramId, AllocatedMemoryId, ItemGaugeId}

\* A registration call on the meter for identity id.
Register(id) == regCalls' = [regCalls EXCEPT ![id] = @ + 1]

\* Errors http.ListenAndServe returns; it never returns nil.
ListenAndServeErrs == {"bind: address already in use", "http: Server closed"}

\* A request goroutine before its handler has been entered.  tmp is the
\* register holding a loaded cartCount; own, rec, attr and msg are the value
\* the handler stored, recorded to the gauge, put on the span and printed;
\* stores counts the handler's stores to cartCount; adds counts its calls of
\* errorCounter.Add; status, errAttr and statusAttr are the response status
\* and the span's helloWorldHandler.error and http.status attributes.
NoRequest ==
    [kind |-> "none", pc |-> "idle", tmp |-> 0, own |-> 0, rec |-> 0,
     attr |-> 0, msg |-> 0, span |-> "none", ends |-> 0, lateAttrs |-> FALSE,
     status |-> 0, errAttr |-> "unset", statusAttr |-> 0, adds |-> 0,
     latency |-> FALSE, stores |-> 0]

Init ==
    /\ mainPc = "initGrpcConn"
    /\ failedStep = "none"
    /\ exitedVia = "none"
    /\ deferred = <<>>
    /\ conn = "nil"
    /\ res = "nil"
    /\ traceProvider = "Uninit"
    /\ meterProvider = "Uninit"
    /\ shutdownCalls = [p \in {"trace", "meter"} |-> 0]
    /\ tracer = "nil"
    /\ meter = "nil"
    /\ errorCounter = "nil"
    /\ latencyHistogram = "nil"
    /\ itemGauge = "nil"
    /\ regCalls = [id \in Instruments |-> 0]
    /\ samplerPc = "notStarted"
    /\ serverStarted = FALSE
    /\ cartCount = 0
    /\ errorCounterVal = 0
    /\ addDeltas = {}
    /\ itemGaugeVal = 0
    /\ req = [i \in 1..MaxRequests |-> NoRequest]

----------------------------------------------------------------------------
\* func main

\* log.Fatal / log.Fatalf: os.Exit(1), deferred calls are not run.
LogFatal(step, via) ==
    /\ mainPc' = "exited"
    /\ failedStep' = step
    /\ exitedVia' = via

\* main.go:127-130
InitGrpcConn(ok) ==
    /\ mainPc = "initGrpcConn"
    /\ IF ok
       THEN /\ conn' = "set"
            /\ mainPc' = "resourceNew"
            /\ UNCHANGED <<failedStep, exitedVia>>
       ELSE /\ LogFatal("initGrpcConn", "startup")
            /\ UNCHANGED conn
    /\ UNCHANGED <<deferred, res, traceProvider, meterProvider, shutdownCalls,
                   tracer, meter, errorCounter, latencyHistogram, itemGauge,
                   serverStarted, regCalls, samplerPc, sharedVars, req>>

\* main.go:132-141
ResourceNew(ok) ==
    /\ mainPc = "resourceNew"
    /\ IF ok
       THEN /\ res' = "set"
            /\ mainPc' = "initTraceProvider"
            /\ UNCHANGED <<failedStep, exitedVia>>
       ELSE /\ LogFatal("resourceNew", "startup")
            /\ UNCHANGED res
    /\ UNCHANGED <<deferred, conn, traceProvider, meterProvider, shutdownCalls,
                   tracer, meter, errorCounter, latencyHistogram, itemGauge,
                   serverStarted, regCalls, samplerPc, sharedVars, req>>

\* main.go:143-151 with initTraceProvider, main.go:71-92: a failure of the
\* exporter is fatal inside initTraceProvider, which never returns an error.
InitTraceProvider(ok) ==
    /\ mainPc = "initTraceProvider"
    /\ IF ok
       THEN /\ traceProvider' = "Running"
            /\ deferred' = Append(deferred, "trace")
            /\ mainPc' = "initMeterProvider"
            /\ UNCHANGED <<failedStep, exitedVia>>
       ELSE /\ LogFatal("initTraceProvider", "startup")
            /\ UNCHANGED <<traceProvider, deferred>>
    /\ UNCHANGED <<conn, res, meterProvider, shutdownCalls, tracer, meter,
                   errorCounter, latencyHistogram, itemGauge, serverStarted,
                   regCalls, samplerPc, sharedVars, req>>

\* main.go:153-161 with initMeterProvider, main.go:54-69
InitMeterProvider(ok) ==
    /\ mainPc = "initMeterProvider"
    /\ IF ok
       THEN /\ meterProvider' = "Running"
            /\ deferred' = Append(deferred, "meter")
            /\ mainPc' = "otelTracerMeter"
            /\ UNCHANGED <<failedStep, exitedVia>>
       ELSE /\ LogFatal("initMeterProvider", "startup")
            /\ UNCHANGED <<meterProvider, deferred>>
    /\ UNCHANGED <<conn, res, traceProvider, shutdownCalls, tracer, meter,
                   errorCounter, latencyHistogram, itemGauge, serverStarted,
                   regCalls, samplerPc, sharedVars, req>>

\* main.go:164-167
CreateTracerAndMeter ==
    /\ mainPc = "otelTracerMeter"
    /\ tracer' = "set"
    /\ meter' = "set"
    /\ mainPc' = "Int64Counter"
    /\ UNCHANGED <<failedStep, exitedVia, deferred, conn, res, traceProvider,
                   meterProvider, shutdownCalls, errorCounter, latencyHistogram,
                   itemGauge, serverStarted, regCalls, samplerPc, sharedVars, req>>

\* main.go:171-178
RegisterErrorCounter(ok) ==
    /\ mainPc = "Int64Counter"
    /\ IF ok
       THEN /\ errorCounter' = "set"
            /\ Register(ErrorCounterId)
            /\ mainPc' = "Float64Histogram"
            /\ UNCHANGED <<failedStep, exitedVia>>
       ELSE /\ LogFatal("Int64Counter", "startup")
            /\ UNCHANGED <<errorCounter, regCalls>>
    /\ UNCHANGED <<deferred, conn, res, traceProvider, meterProvider,
                   shutdownCalls, tracer, meter, latencyHistogram, itemGauge,
                   serverStarted, samplerPc, sharedVars, req>>

\* main.go:181-188
RegisterLatencyHistogram(ok) ==
    /\ mainPc = "Float64Histogram"
    /\ IF ok
       THEN /\ latencyHistogram' = "set"
            /\ Register(LatencyHistogramId)
            /\ mainPc' = "goCollect"
            /\ UNCHANGED <<failedStep, exitedVia>>
       ELSE /\ LogFatal("Float64Histogram", "startup")
            /\ UNCHANGED <<latencyHistogram, regCalls>>
    /\ UNCHANGED <<deferred, conn, res, traceProvider, meterProvider,
                   shutdownCalls, tracer, meter, errorCounter, itemGauge,
                   serverStarted, samplerPc, sharedVars, req>>

\* main.go:192
GoCollect ==
    /\ mainPc = "goCollect"
    /\ samplerPc' = "select"
    /\ mainPc' = "Int64Gauge"
    /\ UNCHANGED <<failedStep, exitedVia, deferred, conn, res, traceProvider,
                   meterProvider, shutdownCalls, tracer, meter, errorCounter,
                   latencyHistogram, itemGauge, serverStarted, regCalls,
                   sharedVars, req>>

\* A variant of lines 194-201 that does not check err.
RegisterItemGaugeUnchecked(ok) ==
    /\ mainPc = "Int64Gauge"
    /\ mainPc' = "ListenAndServe"
    /\ IF ok
       THEN /\ itemGauge' = "set"
            /\ Register(ItemGaugeId)
            /\ UNCHANGED failedStep
       ELSE /\ failedStep' = "Int64Gauge"
            /\ UNCHANGED <<itemGauge, regCalls>>
    /\ UNCHANGED <<exitedVia, deferred, conn, res, traceProvider, meterProvider,
                   shutdownCalls, tracer, meter, errorCounter, latencyHistogram,
                   serverStarted, samplerPc, sharedVars, req>>

\* main.go:194-201
RegisterItemGauge(ok) ==
    /\ mainPc = "Int64Gauge"
    /\ IF ok
       THEN /\ itemGauge' = "set"
            /\ Register(ItemGaugeId)
            /\ mainPc' = "ListenAndServe"
            /\ UNCHANGED <<failedStep, exitedVia>>
       ELSE /\ LogFatal("Int64Gauge", "startup")
            /\ UNCHANGED <<itemGauge, regCalls>>
    /\ UNCHANGED <<deferred, conn, res, traceProvider, meterProvider,
                   shutdownCalls, tracer, meter, errorCounter, latencyHistogram,
                   serverStarted, samplerPc, sharedVars, req>>

\* main.go:204-208: the handlers are installed and the server starts.
ListenAndServe ==
    /\ mainPc = "ListenAndServe"
    /\ serverStarted' = TRUE
    /\ mainPc' = "serving"
    /\ UNCHANGED <<failedStep, exitedVia, deferred, conn, res, traceProvider,
                   meterProvider, shutdownCalls, tracer, meter, errorCounter,
                   latencyHistogram, itemGauge, regCalls, samplerPc,
                   sharedVars, req>>

\* The deferred calls of main (lines 147-151, 157-161), last registered first.
RECURSIVE RunDeferred(_, _, _)
RunDeferred(stack, calls, prov) ==
    IF stack = <<>>
    THEN [calls |-> calls, prov |-> prov]
    ELSE LET p == stack[Len(stack)]
         IN RunDeferred(SubSeq(stack, 1, Len(stack) - 1),
                        [calls EXCEPT ![p] = @ + 1],
                        [prov EXCEPT ![p] = "Stopped"])

\* main.go:208-211: http.ListenAndServe returns err.
ListenAndServeReturns(err) ==
    /\ mainPc = "serving"
    /\ IF err # "nil"
       THEN /\ mainPc' = "exited"
            /\ exitedVia' = "ListenAndServe"
            /\ UNCHANGED <<deferred, shutdownCalls, traceProvider, meterProvider>>
       ELSE LET r == RunDeferred(deferred, shutdownCalls,
                                 [trace |-> traceProvider, meter |-> meterProvider])
            IN /\ mainPc' = "exited"
               /\ exitedVia' = "return"
               /\ deferred' = <<>>
               /\ shutdownCalls' = r.calls
               /\ traceProvider' = r.prov.trace
               /\ meterProvider' = r.prov.meter
    /\ UNCHANGED <<failedStep, conn, res, tracer, meter, errorCounter,
                   latencyHistogram, itemGauge, serverStarted, regCalls,
                   samplerPc, sharedVars, req>>

----------------------------------------------------------------------------
\* func collectMachineResourceMetrics, main.go:94-122: on every tick of the
\* ticker the loop body calls meter.Float64ObservableGauge and discards
\* both results.
SamplerTick ==
    /\ samplerPc = "select"
    /\ mainPc # "exited"
    /\ regCalls[AllocatedMemoryId] < MaxTicks
    /\ Register(AllocatedMemoryId)
    /\ UNCHANGED <<mainVars, samplerPc, sharedVars, req>>

----------------------------------------------------------------------------
\* The HTTP handlers.  net/http runs each request in a goroutine of its own.

\* The server accepts a request and enters the handler named kind.
StartRequest(i, kind) ==
    /\ mainPc = "serving"
    /\ req[i].pc = "idle"
    /\ IF i = 1 THEN TRUE ELSE req[i - 1].pc # "idle"
    /\ req' = [req EXCEPT ![i] =
                  [NoRequest EXCEPT !.kind = kind,
                                    !.pc = CASE kind = "hello" -> "l221"
                                             [] kind = "cartAdd" -> "l253r"
                                             [] kind = "cartRemove" -> "l269"]]
    /\ UNCHANGED <<mainVars, regCalls, samplerPc, sharedVars>>

\* Request i is inside handler kind at position pc.
At(i, kind, pc) ==
    /\ mainPc = "serving"
    /\ req[i].kind = kind
    /\ req[i].pc = pc

\* tracer.Start followed by defer span.End()
StartSpan(r) == [r EXCEPT !.span = "open"]

\* span.SetAttributes: lateAttrs records a call on a span that is not open.
SetAttributes(r) == [r EXCEPT !.lateAttrs = @ \/ r.span # "open"]

\* span.End()
EndSpan(r) == [r EXCEPT !.span = "ended", !.ends = @ + 1]

\* main.go:221-225
HelloStart(i) ==
    /\ At(i, "hello", "l221")
    /\ req' = [req EXCEPT ![i] = [StartSpan(@) EXCEPT !.pc = "l228"]]
    /\ UNCHANGED <<mainVars, regCalls, samplerPc, sharedVars>>

\* main.go:228: rand.Float64() < 0.5
HelloBranch(i, isError) ==
    /\ At(i, "hello", "l228")
    /\ req' = [req EXCEPT ![i].pc = IF isError THEN "l229" ELSE "l242"]
    /\ UNCHANGED <<mainVars, regCalls, samplerPc, sharedVars>>

\* main.go:229
HelloHttpError(i) ==
    /\ At(i, "hello", "l229")
    /\ req' = [req EXCEPT ![i].status = 500, ![i].pc = "l230"]
    /\ UNCHANGED <<mainVars, regCalls, samplerPc, sharedVars>>

\* Int64Counter.Add(ctx, delta) of request i
CounterAdd(i, delta) ==
    /\ errorCounterVal' = errorCounterVal + delta
    /\ addDeltas' = addDeltas \cup {delta}
    /\ req' = [req EXCEPT ![i].adds = @ + 1, ![i].pc = "l233"]

\* A variant of line 230 that passes -1.
HelloErrorAddNegative(i) ==
    /\ At(i, "hello", "l230")
    /\ CounterAdd(i, -1)
    /\ UNCHANGED <<mainVars, regCalls, samplerPc, cartCount, itemGaugeVal>>

\* main.go:230
HelloErrorAdd(i) ==
    /\ At(i, "hello", "l230")
    /\ CounterAdd(i, 1)
    /\ UNCHANGED <<mainVars, regCalls, samplerPc, cartCount, itemGaugeVal>>

\* main.go:233-238
HelloSetErrorAttributes(i) ==
    /\ At(i, "hello", "l233")
    /\ req' = [req EXCEPT ![i] = [SetAttributes(@) EXCEPT !.errAttr = "true",
                                                          !.statusAttr = 500,
                                                          !.pc = "ret"]]
    /\ UNCHANGED <<mainVars, regCalls, samplerPc, sharedVars>>

\* main.go:242-245
HelloSetOkAttributes(i) ==
    /\ At(i, "hello", "l242")
    /\ req' = [req EXCEPT ![i] = [SetAttributes(@) EXCEPT !.errAttr = "false",
                                                          !.statusAttr = 200,
                                                          !.pc = "l248"]]
    /\ UNCHANGED <<mainVars, regCalls, samplerPc, sharedVars>>

\* A variant of lines 248-249 that also counts the request as an error.
HelloWriteOkCounting(i) ==
    /\ At(i, "hello", "l248")
    /\ req' = [req EXCEPT ![i].status = 200, ![i].adds = @ + 1, ![i].pc = "ret"]
    /\ errorCounterVal' = errorCounterVal + 1
    /\ addDeltas' = addDeltas \cup {1}
    /\ UNCHANGED <<mainVars, regCalls, samplerPc, cartCount, itemGaugeVal>>

\* main.go:248-249
HelloWriteOk(i) ==
    /\ At(i, "hello", "l248")
    /\ req' = [req EXCEPT ![i].status = 200, ![i].pc = "ret"]
    /\ UNCHANGED <<mainVars, regCalls, samplerPc, sharedVars>>

\* A variant of the handler's return in which span.End() is a call at the end
\* of the function body, which the early return at line 238 skips.
HelloReturnEndNotDeferred(i) ==
    /\ At(i, "hello", "ret")
    /\ req' = [req EXCEPT ![i] =
                  [(IF @.status = 200 THEN EndSpan(@) ELSE @)
                      EXCEPT !.latency = TRUE, !.pc = "done"]]
    /\ UNCHANGED <<mainVars, regCalls, samplerPc, sharedVars>>

\* The return of helloWorldHandler (lines 238 and 250): the deferred calls
\* run last registered first, recordLatencyHistogram (225), then span.End (222).
HelloReturn(i) ==
    /\ At(i, "hello", "ret")
    /\ req' = [req EXCEPT ![i] =
                  [EndSpan([@ EXCEPT !.latency = TRUE]) EXCEPT !.pc = "done"]]
    /\ UNCHANGED <<mainVars, regCalls, samplerPc, sharedVars>>

HelloStep(i) ==
    \/ HelloStart(i)
    \/ \E isError \in BOOLEAN : HelloBranch(i, isError)
    \/ HelloHttpError(i)
    \/ HelloErrorAdd(i)
    \/ HelloSetErrorAttributes(i)
    \/ HelloSetOkAttributes(i)
    \/ HelloWriteOk(i)
    \/ HelloReturn(i)

----------------------------------------------------------------------------
\* Steps shared by cartAddHandler and cartRemoveHandler.

\* A load of cartCount into the goroutine's register tmp, which the next
\* step of the goroutine consumes.
LoadCartCount(i, kind, from, to) ==
    /\ At(i, kind, from)
    /\ req' = [req EXCEPT ![i].tmp = cartCount, ![i].pc = to]
    /\ UNCHANGED <<mainVars, regCalls, samplerPc, sharedVars>>

\* itemGauge.Record(r.Context(), <loaded value>)
GaugeRecord(i, kind, from, to) ==
    /\ At(i, kind, from)
    /\ itemGaugeVal' = req[i].tmp
    /\ req' = [req EXCEPT ![i].rec = req[i].tmp, ![i].tmp = 0, ![i].pc = to]
    /\ UNCHANGED <<mainVars, regCalls, samplerPc, cartCount, errorCounterVal,
                   addDeltas>>

\* tracer.Start(...); defer span.End()
CartStartSpan(i, kind, from, to) ==
    /\ At(i, kind, from)
    /\ req' = [req EXCEPT ![i] = [StartSpan(@) EXCEPT !.pc = to]]
    /\ UNCHANGED <<mainVars, regCalls, samplerPc, sharedVars>>

\* span.SetAttributes(attribute.Int64("...cartCount", cartCount))
CartSetAttributes(i, kind, from, to) ==
    /\ At(i, kind, from)
    /\ req' = [req EXCEPT ![i] = [SetAttributes(@) EXCEPT !.attr = cartCount,
                                                          !.pc = to]]
    /\ UNCHANGED <<mainVars, regCalls, samplerPc, sharedVars>>

\* message := fmt.Sprintf("... %d.", cartCount); w.WriteHeader; w.Write
CartWriteMessage(i, kind, from) ==
    /\ At(i, kind, from)
    /\ req' = [req EXCEPT ![i].msg = cartCount, ![i].status = 200, ![i].pc = "ret"]
    /\ UNCHANGED <<mainVars, regCalls, samplerPc, sharedVars>>

\* The handler returns and the deferred span.End() runs; the values the
\* handler held go out of scope.
CartReturn(i, kind) ==
    /\ At(i, kind, "ret")
    /\ req' = [req EXCEPT ![i] = [EndSpan(@) EXCEPT !.own = 0, !.rec = 0,
                                                    !.attr = 0, !.msg = 0,
                                                    !.pc = "done"]]
    /\ UNCHANGED <<mainVars, regCalls, samplerPc, sharedVars>>

----------------------------------------------------------------------------
\* func cartAddHandler, main.go:252-266

\* main.go:253, the store of cartCount + 1
AddStore(i) ==
    /\ At(i, "cartAdd", "l253w")
    /\ cartCount' = req[i].tmp + 1
    /\ req' = [req EXCEPT ![i].own = req[i].tmp + 1, ![i].tmp = 0,
                          ![i].stores = @ + 1, ![i].pc = "l254r"]
    /\ UNCHANGED <<mainVars, regCalls, samplerPc, errorCounterVal, addDeltas,
                   itemGaugeVal>>

CartAddStep(i) ==
    \/ LoadCartCount(i, "cartAdd", "l253r", "l253w")
    \/ AddStore(i)
    \/ LoadCartCount(i, "cartAdd", "l254r", "l254")
    \/ GaugeRecord(i, "cartAdd", "l254", "l256")
    \/ CartStartSpan(i, "cartAdd", "l256", "l259")
    \/ CartSetAttributes(i, "cartAdd", "l259", "l263")
    \/ CartWriteMessage(i, "cartAdd", "l263")
    \/ CartReturn(i, "cartAdd")

----------------------------------------------------------------------------
\* func cartRemoveHandler, main.go:268-284

\* main.go:269, the load and test of cartCount != 0
RemoveCheck(i) ==
    /\ At(i, "cartRemove", "l269")
    /\ req' = [req EXCEPT ![i].own = cartCount,
                          ![i].pc = IF cartCount # 0 THEN "l270r" ELSE "l272r"]
    /\ UNCHANGED <<mainVars, regCalls, samplerPc, sharedVars>>

\* main.go:270, the store of cartCount - 1
RemoveStore(i) ==
    /\ At(i, "cartRemove", "l270w")
    /\ cartCount' = req[i].tmp - 1
    /\ req' = [req EXCEPT ![i].own = req[i].tmp - 1, ![i].tmp = 0,
                          ![i].stores = @ + 1, ![i].pc = "l272r"]
    /\ UNCHANGED <<mainVars, regCalls, samplerPc, errorCounterVal, addDeltas,
                   itemGaugeVal>>

CartRemoveStep(i) ==
    \/ RemoveCheck(i)
    \/ LoadCartCount(i, "cartRemove", "l270r", "l270w")
    \/ RemoveStore(i)
    \/ LoadCartCount(i, "cartRemove", "l272r", "l272")
    \/ GaugeRecord(i, "cartRemove", "l272", "l274")
    \/ CartStartSpan(i, "cartRemove", "l274", "l277")
    \/ CartSetAttributes(i, "cartRemove", "l277", "l281")
    \/ CartWriteMessage(i, "cartRemove", "l281")
    \/ CartReturn(i, "cartRemove")

----------------------------------------------------------------------------
Kinds == {"hello", "cartAdd", "cartRemove"}

MainStep ==
    \/ \E ok \in BOOLEAN : InitGrpcConn(ok)
    \/ \E ok \in BOOLEAN : ResourceNew(ok)
    \/ \E ok \in BOOLEAN : InitTraceProvider(ok)
    \/ \E ok \in BOOLEAN : InitMeterProvider(ok)
    \/ CreateTracerAndMeter
    \/ \E ok \in BOOLEAN : RegisterErrorCounter(ok)
    \/ \E ok \in BOOLEAN : RegisterLatencyHistogram(ok)
    \/ GoCollect
    \/ \E ok \in BOOLEAN : RegisterItemGauge(ok)
    \/ ListenAndServe
    \/ \E err \in ListenAndServeErrs : ListenAndServeReturns(err)

Next ==
    \/ MainStep
    \/ SamplerTick
    \/ \E i \in DOMAIN req, kind \in Kinds : StartRequest(i, kind)
    \/ \E i \in DOMAIN req : HelloStep(i)
    \/ \E i \in DOMAIN req : CartAddStep(i)
    \/ \E i \in DOMAIN req : CartRemoveStep(i)

Spec == Init /\ [][Next]_vars

----------------------------------------------------------------------------
\* The state main reaches at line 208 when every startup call has succeeded,
\* with n request goroutines still to come.
Serving(n) ==
    /\ mainPc = "serving"
    /\ failedStep = "none"
    /\ exitedVia = "none"
    /\ deferred = <<"trace", "meter">>
    /\ conn = "set"
    /\ res = "set"
    /\ traceProvider = "Running"
    /\ meterProvider = "Running"
    /\ shutdownCalls = [p \in {"trace", "meter"} |-> 0]
    /\ tracer = "set"
    /\ meter = "set"
    /\ errorCounter = "set"
    /\ latencyHistogram = "set"
    /\ itemGauge = "set"
    /\ regCalls = [id \in Instruments |->
                      IF id = AllocatedMemoryId THEN 0 ELSE 1]
    /\ samplerPc = "select"
    /\ serverStarted = TRUE
    /\ cartCount = 0
    /\ errorCounterVal = 0
    /\ addDeltas = {}
    /\ itemGaugeVal = 0
    /\ req = [i \in 1..n |-> NoRequest]

\* Number of requests to /cart/add and /cart/remove in a run of SpecCart.
MaxCartRequests == 3

\* The server once it is serving, receiving cart requests only.
InitCart == Serving(MaxCartRequests)

NextCart ==
    \/ \E i \in DOMAIN req, kind \in {"cartAdd", "cartRemove"} : StartRequest(i, kind)
    \/ \E i \in DOMAIN req : CartAddStep(i)
    \/ \E i \in DOMAIN req : CartRemoveStep(i)

SpecCart == InitCart /\ [][NextCart]_vars

\* The requests of the scenario "CartAdd 3 times concurrently, then
\* CartRemove once": three requests to /cart/add and a fourth request, to
\* /cart/remove, that arrives when the three have returned.
ScenarioAdds == {1, 2, 3}
ScenarioRemove == Cardinality(ScenarioAdds) + 1

InitScenario == Serving(ScenarioRemove)

ScenarioStart(i) ==
    IF i \in ScenarioAdds
    THEN StartRequest(i, "cartAdd")
    ELSE /\ \A j \in ScenarioAdds : req[j].pc = "done"
         /\ StartRequest(i, "cartRemove")

NextScenario ==
    \/ \E i \in DOMAIN req : ScenarioStart(i)
    \/ \E i \in DOMAIN req : CartAddStep(i)
    \/ \E i \in DOMAIN req : CartRemoveStep(i)

SpecScenario == InitScenario /\ [][NextScenario]_vars

----------------------------------------------------------------------------
\* Properties.

Requests == DOMAIN req

\* No handler is between its entry and its return.
Quiescent == \A i \in Requests : req[i].pc \in {"idle", "done"}

RECURSIVE SumOver(_, _)
SumOver(f, S) ==
    IF S = {} THEN 0
    ELSE LET x == CHOOSE y \in S : TRUE
         IN f[x] + SumOver(f, S \ {x})

\* Increments performed minus decrements performed.
NetSum ==
    SumOver([i \in Requests |->
                CASE req[i].kind = "cartAdd" -> req[i].stores
                  [] req[i].kind = "cartRemove" -> 0 - req[i].stores
                  [] OTHER -> 0],
            Requests)

\* C1: once every cart handler invocation has returned, cartCount equals the
\* number of increments performed minus the number of decrements performed.
C1_NoLostUpdate == Quiescent => cartCount = NetSum

\* C2: after three concurrent cartAddHandler invocations have returned and one
\* cartRemoveHandler invocation has then run, the api.cart.items gauge holds 2.
C2_FinalGaugeIsTwo == req[ScenarioRemove].pc = "done" => itemGaugeVal = 2

\* C3: no instrument identity (name, unit) is registered more than once.
C3_RegisteredOnce == \A id \in Instruments : regCalls[id] <= 1

\* C4: when the process has stopped because http.ListenAndServe returned, the
\* shutdown function of each provider has been invoked and both pipelines
\* are stopped.
C4_ShutdownOnExit ==
    (mainPc = "exited" /\ exitedVia = "ListenAndServe")
        => /\ shutdownCalls["trace"] = 1
           /\ shutdownCalls["meter"] = 1
           /\ traceProvider = "Stopped"
           /\ meterProvider = "Stopped"

\* C5: a startup step that fails ends the process before the HTTP server is
\* started, and whenever a handler has been entered tracer, errorCounter,
\* latencyHistogram and itemGauge are initialised.
C5_StartupErrorsFatal ==
    /\ failedStep # "none" => (mainPc = "exited" /\ ~serverStarted)
    /\ serverStarted =>
          /\ conn = "set"
          /\ res = "set"
          /\ traceProvider # "Uninit"
          /\ meterProvider # "Uninit"
    /\ \A i \in Requests :
          req[i].pc # "idle" =>
              /\ tracer = "set"
              /\ errorCounter = "set"
              /\ latencyHistogram = "set"
              /\ itemGauge = "set"

\* The registration of the cart gauge, the last startup step, has failed and
\* the process has exited.
C5_Witness ==
    /\ failedStep = "Int64Gauge"
    /\ mainPc = "exited"
    /\ samplerPc = "select"

\* C6: the span of a handler is ended exactly once, by the handler's return,
\* no SetAttributes call is made on it after it has ended, and it is not open
\* once the handler has returned.
C6_SpanEndedOnceAtReturn ==
    \A i \in Requests :
        /\ req[i].ends <= 1
        /\ ~req[i].lateAttrs
        /\ req[i].span = "ended" <=> req[i].pc = "done"
        /\ req[i].pc = "done" => req[i].ends = 1

\* A helloWorldHandler that took the early return of the error branch, a
\* cartAddHandler or a cartRemoveHandler has returned.
C6_Witness ==
    /\ \E i \in Requests :
          /\ req[i].kind = "hello"
          /\ req[i].status = 500
          /\ req[i].pc = "done"
          /\ req[i].errAttr = "true"
    /\ \E i \in Requests :
          /\ req[i].kind \in {"cartAdd", "cartRemove"}
          /\ req[i].pc = "done"

\* C7: no step lowers api.request.error_counter, and every delta passed to
\* errorCounter.Add is 1.
C7_CounterMonotone ==
    [][errorCounterVal' >= errorCounterVal /\ addDeltas' \subseteq {1}]_vars

\* Two requests have each added to the counter.
C7_Witness == errorCounterVal = 2 /\ addDeltas = {1}

\* C8: cartCount is never negative.
C8_CartCountNonNegative == cartCount >= 0

\* Positions of a cart handler, up to its return, after its itemGauge.Record,
\* after its span.SetAttributes and after its response has been written.
AfterRecord == {"l256", "l259", "l263", "l274", "l277", "l281", "ret"}
AfterAttributes == {"l263", "l281", "ret"}
AfterMessage == {"ret"}

\* C9: in one invocation of a cart handler the value recorded to the gauge,
\* the cartCount span attribute and the count in the response are the value
\* cartCount took by the invocation's own update.
C9_OwnValueReported ==
    \A i \in Requests :
        req[i].kind \in {"cartAdd", "cartRemove"} =>
            /\ req[i].pc \in AfterRecord => req[i].rec = req[i].own
            /\ req[i].pc \in AfterAttributes => req[i].attr = req[i].own
            /\ req[i].pc \in AfterMessage => req[i].msg = req[i].own

\* C10: a helloWorldHandler request adds 1 to the counter exactly when its
\* response is 500, with span attributes error = true and http.status = 500;
\* otherwise the response is 200, it adds nothing and the attributes are
\* error = false and http.status = 200.  With no request in flight the
\* counter equals the number of requests answered with 500.
C10_ErrorCountedIffStatus500 ==
    /\ \A i \in Requests :
          (req[i].kind = "hello" /\ req[i].pc = "done") =>
              \/ /\ req[i].status = 500
                 /\ req[i].adds = 1
                 /\ req[i].errAttr = "true"
                 /\ req[i].statusAttr = 500
              \/ /\ req[i].status = 200
                 /\ req[i].adds = 0
                 /\ req[i].errAttr = "false"
                 /\ req[i].statusAttr = 200
    /\ \A i \in Requests : req[i].adds = 1 <=> (req[i].status = 500 /\ req[i].pc # "l230")
    /\ Quiescent =>
          errorCounterVal = Cardinality({i \in Requests : req[i].status = 500})

\* One request has been answered with 500 and one with 200, and none is in
\* flight.
C10_Witness ==
    /\ Quiescent
    /\ \E i \in Requests : req[i].kind = "hello" /\ req[i].status = 500
    /\ \E i \in Requests : req[i].kind = "hello" /\ req[i].status = 200
    /\ errorCounterVal = 1

====
